---- MODULE Spec2Model ----
(***************************************************************************)
(* Model of src/src/services/ArduinoService.ts (class ArduinoService): the *)
(* connection manager (connect, handleConnectionError, disconnect and the  *)
(* socket handlers), the command dispatcher (sendCommand), the event hub   *)
(* (on, off, emit), the data normalizer (safeNumber, validateSensorData)   *)
(* and the device data combiner (emitCurrentPlantData, setActivePlant);    *)
(* and of src/src/components/HistoricalChart.tsx: averageDataPoints and    *)
(* the effect that feeds the displayed series.                             *)
(*                                                                         *)
(* The socket.io client is outside the repository.  A transport handle is  *)
(* modelled by what the code can observe of it: it is created by io(),     *)
(* delivers connect / connect_error / reconnect / reconnect_error /        *)
(* disconnect events to the handlers registered on it for as long as it is *)
(* not closed, and is closed by socket.disconnect() or by the server.      *)
(* The timers of the service fire in any order: time is abstracted there.  *)
(* The chart has a clock, because its debounce is a matter of delays.      *)
(*                                                                         *)
(* Spec      the connection manager                                        *)
(* FairSpec  Spec with the fairness of timers and of the transport         *)
(* CmdSpec   the command dispatcher over the connection manager            *)
(* HubSpec   the event hub: on, off and emit over callbacks, some of which *)
(*           throw                                                         *)
(* NormSpec  validateSensorData applied to the payloads of Payloads        *)
(* DataSpec  the dataUpdate and initData handlers and setActivePlant over  *)
(*           a connection                                                  *)
(* StoreSpec the handlers that write the shared stores (initData,          *)
(*           dataUpdate, reservoirUpdate, controlResponse, commandIssued,  *)
(*           sendCommand) over a connection                                *)
(* HistSpec  the history lists: dataUpdate up to and past 100 readings,    *)
(*           getHistoricalData                                             *)
(* AggSpec   averageDataPoints applied to the inputs of Inputs             *)
(* ChartSpec the effect of the chart: history, data events, debounce timer *)
(* LifeSpec  the runs of the chart's effect and their cleanup, next to the *)
(*           other subscribers of 'data'                                   *)
(*                                                                         *)
(* In every specification but HubSpec the subscribers of the hub belong to *)
(* the consumers of the service and return normally: an emit() call of a   *)
(* handler is recorded in turn.published.  HubSpec is where emit() runs    *)
(* callbacks, and LifeSpec where emit('data') runs the chart's handler.    *)
(*                                                                         *)
(* JavaScript values are tagged records (JSUndefined, JSNull, Str, Num),   *)
(* so that ||, !== undefined and Number() are computed as the language     *)
(* computes them.  The values of chart points are exact rationals.         *)
(***************************************************************************)
EXTENDS Integers, Sequences, FiniteSets, TLC

\* ---------------------------------------------------------------- constants
maxReconnectAttempts == 5
retryDelay == 5000
capDelay == 20000
historyCap == 100
intervalMs == 300000
maxPoints == 60
debounceMs == 30000

\* ------------------------------------------------------------------- bounds
\* transport handles that exist at the same time (closed and settled ones are reclaimed)
MaxHandles == 2
\* backoff timers pending at the same time
MaxTimers == 2
\* largest value of the attempt counter explored
MaxCount == 6
\* HTTP requests of sendCommand in flight at the same time
MaxFetch == 1
\* longest subscriber list of one event explored
MaxSubscribers == 3
\* transport handles that exist at the same time in CmdSpec
CmdMaxHandles == 1
\* longest history of one plant level explored in DataSpec
MaxHistory == 1
\* points that follow the run of consecutive buckets in the inputs of averageDataPoints
MaxTail == 2
\* data events a chart receives
MaxEvents == 3
\* steps of the clock after the chart is mounted
MaxTicks == 6
MaxEffects == 2

VARIABLES
    socket,             \* this.socket: 0 is null, else the handle
    reconnectAttempts,  \* this.reconnectAttempts
    connected,          \* this.connected
    connectionTimeout,  \* this.connectionTimeout: 0, or h: the pending watchdog of the connect() call that made handle h
    handles,            \* the transport handles made by io(): state and the promise of the connect() call that made it
    timers,             \* pending backoff timers of handleConnectionError (each runs this.connect())
    wateringActive,     \* this.wateringActive
    lightActive,        \* this.lightActive
    plantType,          \* this.plantType
    fetches,            \* sendCommand calls awaiting the response of fetch()
    listeners,          \* this.listeners: Map from event name to array of callbacks
    delayLog,           \* history: the backoff delays scheduled since the attempt counter was last 0
    localDisconnect,    \* history: disconnect() was called and connect() has not been called by the caller since
    currentSensorData,  \* this.currentSensorData: from the deviceIds heard of to their last normalized reading
    historicalData,     \* this.historicalData: the stored readings of each plant level
    currentReservoirLevels, \* this.currentReservoirLevels
    payload,            \* a raw payload handed to validateSensorData, <<>> when there is no call
    deviceId,           \* the deviceId handed to validateSensorData
    reading,            \* what validateSensorData returned for payload, <<>> before it returns
    rawData,            \* the argument of a call of averageDataPoints
    averaged,           \* what averageDataPoints returned for rawData
    data,               \* the state `data` of the chart: the displayed series
    updateTimeout,      \* the variable updateTimeout of the chart's effect: 0, or the id of the last timer set
    timeouts,           \* the pending setTimeout timers of the chart: id, due time, the captured newData
    clock,              \* the time, in ms
    timeoutIds,         \* the number of timers the chart has set
    applied,            \* history: the raw points that went into the displayed series
    effects,            \* the runs of the chart's effect: isMounted and updateTimeout of each closure
    lastEventAt,        \* history: the time of the last data event handled by the chart, or -1
    turn                \* what the last synchronous turn did: operation, published events, outcomes

vars == <<socket, reconnectAttempts, connected, connectionTimeout, handles, timers,
          wateringActive, lightActive, plantType, fetches, listeners,
          delayLog, localDisconnect, currentSensorData, historicalData,
          currentReservoirLevels, payload, deviceId, reading, rawData, averaged,
          data, updateTimeout, timeouts, clock, timeoutIds, applied, effects, lastEventAt,
          turn>>

connVars == <<socket, reconnectAttempts, connected, connectionTimeout, handles, timers,
              delayLog, localDisconnect>>
cmdVars == <<wateringActive, lightActive, plantType, fetches>>
dataVars == <<currentSensorData, historicalData, currentReservoirLevels>>
normVars == <<payload, deviceId, reading>>
\* what the connection manager, the command dispatcher and the hub never touch
aggVars == <<rawData, averaged>>
chartVars == <<data, updateTimeout, timeouts, clock, timeoutIds, applied, effects,
               lastEventAt>>
\* the state of the chart component
viewVars == <<aggVars, chartVars>>
extVars == <<dataVars, normVars, viewVars>>

Handles == 1..MaxHandles

\* ------------------------------------------------------------ turn records
Turn0 ==
    [op |-> "init", h |-> 0, arg |-> "none", published |-> <<>>, emitted |-> <<>>,
     settled |-> "none", created |-> 0, cmdRet |-> "none", requests |-> <<>>,
     invoked |-> <<>>, thrown |-> FALSE, outcome |-> "none", dataEvents |-> <<>>,
     delivered |-> <<>>, updPlant |-> "", returned |-> <<>>, effect |-> 0]

Ev(name, arg) == [ev |-> name, arg |-> arg, msg |-> "none"]
EvMsg(name, arg, msg) == [ev |-> name, arg |-> arg, msg |-> msg]

\* --------------------------------------------------------- pure functions
RECURSIVE Pow(_, _)
Pow(b, e) == IF e = 0 THEN 1 ELSE b * Pow(b, e - 1)

Min(a, b) == IF a <= b THEN a ELSE b

\* Math.min(this.retryDelay * Math.pow(1.5, n - 1), 20000), in milliseconds, rounded
\* down (exact while the product is an integer, and capped before it stops being one)
BackoffDelayDoubling(n) == Min(retryDelay * Pow(2, n - 1), capDelay)
BackoffDelay(n) == Min((retryDelay * Pow(3, n - 1)) \div Pow(2, n - 1), capDelay)

\* connect(): if (this.reconnectAttempts >= this.maxReconnectAttempts)
AttemptsExhaustedOffByOne(n) == n > maxReconnectAttempts
AttemptsExhausted(n) == n >= maxReconnectAttempts

\* handleConnectionError(): if (this.reconnectAttempts < this.maxReconnectAttempts), after the ++
ShouldRetry(n) == n < maxReconnectAttempts

FreeHandle == [st |-> "free", promise |-> "none"]

\* a closed handle whose connect() call is settled is no longer observable: its slot is reused
Reclaim(hs) ==
    [h \in Handles |->
        IF hs[h].st = "closed" /\ hs[h].promise = "resolved" THEN FreeHandle ELSE hs[h]]

Open(h) == handles[h].st \in {"connecting", "retrying", "reopened", "connected"}

\* socket.disconnect() on handle h: a connected socket runs its 'disconnect' handler
\* synchronously (reason 'io client disconnect'), which publishes connection{false}
ClosePublishes(h) ==
    IF h # 0 /\ handles[h].st = "connected" THEN <<Ev("connection", "false")>> ELSE <<>>

Closed(hs, h) ==
    IF h # 0 /\ hs[h].st # "free" THEN [hs EXCEPT ![h].st = "closed"] ELSE hs

\* resolve(v) of the promise of the connect() call that made handle h
Resolved(hs, h) == [hs EXCEPT ![h].promise = "resolved"]
Settles(h, v) == IF handles[h].promise = "pending" THEN v ELSE "none"

\* ------------------------------------------------------- JavaScript values
\* A value of a payload field: undefined (the key is missing), null, a string or a
\* number.  A number is finite (s = "") or one of Infinity and NaN.
JSUndefined == [t |-> "undefined", n |-> 0, s |-> ""]
JSNull == [t |-> "null", n |-> 0, s |-> ""]
JSTrue == [t |-> "boolean", n |-> 1, s |-> ""]
JSFalse == [t |-> "boolean", n |-> 0, s |-> ""]
Str(x) == [t |-> "string", n |-> 0, s |-> x]
Num(x) == [t |-> "number", n |-> x, s |-> ""]
JSInfinity == [t |-> "number", n |-> 0, s |-> "Infinity"]
JSNaN == [t |-> "number", n |-> 0, s |-> "NaN"]

IsNaN(v) == v.t = "number" /\ v.s = "NaN"
IsFinite(v) == v.t = "number" /\ v.s = ""

\* ToBoolean: what || and if() test
Truthy(v) ==
    CASE v.t = "undefined" -> FALSE
      [] v.t = "null" -> FALSE
      [] v.t = "string" -> v.s # ""
      [] v.t = "number" -> ~IsNaN(v) /\ ~(IsFinite(v) /\ v.n = 0)
      [] v.t = "boolean" -> v.n = 1
      [] OTHER -> TRUE

\* a || b
Or(a, b) == IF Truthy(a) THEN a ELSE b

\* Number(value) on the strings the payloads carry
StringToNumber(x) ==
    CASE x = "" -> Num(0)
      [] x = "0" -> Num(0)
      [] x = "7" -> Num(7)
      [] x = "Infinity" -> JSInfinity
      [] OTHER -> JSNaN

\* Number(value)
ToNumber(v) ==
    CASE v.t = "number" -> v
      [] v.t = "string" -> StringToNumber(v.s)
      [] v.t = "null" -> Num(0)
      [] OTHER -> JSNaN

\* ---------------------------------------------------------- data normalizer
\* safeNumber(value, defaultValue)
safeNumber(value, defaultValue) ==
    IF value = JSNull \/ value = JSUndefined \/ value = Str("")
    THEN Num(defaultValue)
    ELSE LET num == ToNumber(value)
         IN  IF IsNaN(num) THEN Num(defaultValue) ELSE num

\* the value of data.npk: undefined, null or an object with the keys N, P, K
NoNpk == [t |-> "undefined", N |-> JSUndefined, P |-> JSUndefined, K |-> JSUndefined]
NullNpk == [t |-> "null", N |-> JSUndefined, P |-> JSUndefined, K |-> JSUndefined]
Npk(N, P, K) == [t |-> "object", N |-> N, P |-> P, K |-> K]

\* the keys of a payload that validateSensorData reads as plain values
ScalarKeys ==
    {"temperature", "humidity", "moisture_percent", "soil_moisture_percent", "moisture",
     "lux", "lightLevel", "ldr", "nitrogen", "phosphorus", "potassium",
     "waterLevelPercent", "waterLevel", "fertilizer_level", "fertilizerLevel", "timestamp"}

\* the payload {}
EmptyPayload == [k \in ScalarKeys \cup {"npk"} |-> IF k = "npk" THEN NoNpk ELSE JSUndefined]

\* the three nutrient values: from data.npk when it is truthy, else from the flat keys
nutrients(d) ==
    IF d.npk.t = "object"
    THEN [nitrogen |-> safeNumber(d.npk.N, 0),
          phosphorus |-> safeNumber(d.npk.P, 0),
          potassium |-> safeNumber(d.npk.K, 0)]
    ELSE [nitrogen |-> safeNumber(d.nitrogen, 0),
          phosphorus |-> safeNumber(d.phosphorus, 0),
          potassium |-> safeNumber(d.potassium, 0)]

moisturePercent(d) ==
    IF d.moisture_percent # JSUndefined THEN safeNumber(d.moisture_percent, 0)
    ELSE IF d.soil_moisture_percent # JSUndefined THEN safeNumber(d.soil_moisture_percent, 0)
    ELSE safeNumber(d.moisture, 0)

sunlightValue(d) ==
    IF d.lux # JSUndefined THEN safeNumber(d.lux, 0)
    ELSE IF d.lightLevel # JSUndefined THEN safeNumber(d.lightLevel, 0)
    ELSE IF d.ldr # JSUndefined THEN safeNumber(d.ldr, 0)
    ELSE Num(0)

\* validateSensorData(data, deviceId, plantType): plantType is not read
validateSensorData(d, dev) ==
    [temperature |-> safeNumber(d.temperature, 20),
     humidity |-> safeNumber(d.humidity, 50),
     moisture |-> moisturePercent(d),
     sunlight |-> sunlightValue(d),
     nitrogen |-> nutrients(d).nitrogen,
     phosphorus |-> nutrients(d).phosphorus,
     potassium |-> nutrients(d).potassium,
     waterLevel |-> safeNumber(Or(d.waterLevelPercent, d.waterLevel), 0),
     fertilizerLevel |-> safeNumber(Or(d.fertilizer_level, d.fertilizerLevel), 0),
     timestamp |-> Or(d.timestamp, Str("now")),
     deviceId |-> dev]

\* what the fields of currentSensorData[deviceId] evaluate to under ?. when the key is missing
NoReading ==
    [temperature |-> JSUndefined, humidity |-> JSUndefined, moisture |-> JSUndefined,
     sunlight |-> JSUndefined, nitrogen |-> JSUndefined, phosphorus |-> JSUndefined,
     potassium |-> JSUndefined, waterLevel |-> JSUndefined, fertilizerLevel |-> JSUndefined,
     timestamp |-> JSUndefined, deviceId |-> "none"]

DeviceIds == {"esp32_1", "esp32_2"}

\* this.currentSensorData[dev]
Cached(c, dev) == IF dev \in DOMAIN c THEN c[dev] ELSE NoReading
PlantTypes == {"level1", "level2"}

\* ------------------------------------------------------------------- Init
\* the fields of a new ArduinoService
\* the reservoir snapshot a new service holds
DefaultLevels == [water |-> 75, waterCm |-> 15, fertilizer |-> 60, fertilizerCm |-> 12]

ServiceInit ==
    /\ socket = 0
    /\ reconnectAttempts = 0
    /\ connected = FALSE
    /\ connectionTimeout = 0
    /\ handles = [h \in Handles |-> FreeHandle]
    /\ timers = 0
    /\ wateringActive = FALSE
    /\ lightActive = FALSE
    /\ plantType = "level1"
    /\ fetches = <<>>
    /\ listeners = [e \in {} |-> <<>>]
    /\ delayLog = <<>>
    /\ localDisconnect = FALSE
    /\ currentSensorData = [d \in {} |-> NoReading]
    /\ historicalData = [p \in PlantTypes |-> <<>>]
    /\ currentReservoirLevels = DefaultLevels
    /\ turn = Turn0

\* no call of validateSensorData is under way
NormIdle ==
    /\ payload = <<>>
    /\ deviceId = "none"
    /\ reading = <<>>

\* no call of averageDataPoints is under way
AggIdle ==
    /\ rawData = <<>>
    /\ averaged = <<>>

\* no chart is mounted
ChartIdle ==
    /\ data = <<>>
    /\ updateTimeout = 0
    /\ timeouts = {}
    /\ clock = 0
    /\ timeoutIds = 0
    /\ applied = <<>>
    /\ effects = <<>>
    /\ lastEventAt = -1

Init == ServiceInit /\ NormIdle /\ AggIdle /\ ChartIdle

\* ---------------------------------------------------- connection manager
\* handleConnectionError(error), run after the events `before` were published in the same turn
HandleConnectionError(before, t) ==
    /\ reconnectAttempts < MaxCount
    /\ connected' = FALSE
    /\ reconnectAttempts' = reconnectAttempts + 1
    /\ IF ShouldRetry(reconnectAttempts + 1)
       THEN /\ timers < MaxTimers
            /\ timers' = timers + 1
            /\ delayLog' = Append(delayLog, BackoffDelay(reconnectAttempts + 1))
            /\ turn' = [t EXCEPT !.published = before \o <<Ev("connection", "false")>>]
       ELSE /\ timers' = timers
            /\ delayLog' = delayLog
            /\ turn' = [t EXCEPT !.published =
                            before \o <<Ev("connection", "false"), Ev("error", "failed")>>]

\* the body of connect(); `t` names the caller, `tm` is the number of backoff timers left.
\* io() is taken not to throw (the catch of connect() is not entered).
ConnectBody(t, tm) ==
    /\ timers' = tm
    /\ UNCHANGED <<reconnectAttempts, connected, delayLog>>
    /\ IF AttemptsExhausted(reconnectAttempts)
       THEN /\ connectionTimeout' = 0
            /\ turn' = [t EXCEPT !.published = <<Ev("error", "max")>>, !.settled = "false"]
            /\ UNCHANGED <<socket, handles>>
       ELSE \E h \in Handles :
            /\ handles[h].st = "free"
            /\ \A g \in Handles : handles[g].st = "free" => h <= g
            /\ handles' = [handles EXCEPT ![h] = [st |-> "connecting", promise |-> "pending"]]
            /\ socket' = h
            /\ connectionTimeout' = h
            /\ turn' = [t EXCEPT !.h = h, !.created = h]

\* connect() called by a consumer of the service
Connect ==
    /\ ConnectBody([Turn0 EXCEPT !.op = "connect"], timers)
    /\ localDisconnect' = FALSE
    /\ UNCHANGED <<cmdVars, listeners>>
    /\ UNCHANGED extVars

\* the backoff timer of handleConnectionError fires: this.connect()
BackoffFire ==
    /\ timers > 0
    /\ ConnectBody([Turn0 EXCEPT !.op = "backoff"], timers - 1)
    /\ UNCHANGED <<localDisconnect, cmdVars, listeners>>
    /\ UNCHANGED extVars

\* the 20 s watchdog of connect() fires
WatchdogFire ==
    /\ connectionTimeout # 0
    /\ connectionTimeout' = 0
    /\ LET h == connectionTimeout
           t == [Turn0 EXCEPT !.op = "watchdog", !.h = h]
       IN IF socket # 0 /\ ~connected
          THEN /\ HandleConnectionError(ClosePublishes(socket),
                                        [t EXCEPT !.settled = Settles(h, "false")])
               /\ handles' = Reclaim(Resolved(Closed(handles, socket), h))
          ELSE /\ turn' = t
               /\ UNCHANGED <<connected, reconnectAttempts, timers, delayLog, handles>>
    /\ UNCHANGED <<socket, localDisconnect, cmdVars, listeners>>
    /\ UNCHANGED extVars

\* socket.on('connect') of handle h
SocketConnect(h) ==
    /\ handles[h].st \in {"connecting", "retrying", "reopened"}
    /\ connected' = TRUE
    /\ reconnectAttempts' = 0
    /\ delayLog' = <<>>
    /\ connectionTimeout' = 0
    /\ handles' = [handles EXCEPT ![h] = [st |-> "connected", promise |-> "resolved"]]
    /\ turn' = [Turn0 EXCEPT !.op = "sock_connect", !.h = h,
                  !.published = <<Ev("connection", "true"), Ev("alert", "success")>>,
                  !.emitted = IF socket # 0
                              THEN <<[to |-> socket, ev |-> "requestInitialData"]>>
                              ELSE <<>>,
                  !.settled = Settles(h, "true")]
    /\ UNCHANGED <<socket, timers, localDisconnect, cmdVars, listeners>>
    /\ UNCHANGED extVars

\* socket.on('connect_error') of handle h
SocketConnectError(h) ==
    /\ handles[h].st \in {"connecting", "retrying"}
    /\ connectionTimeout' = 0
    /\ HandleConnectionError(<<>>, [Turn0 EXCEPT !.op = "sock_connect_error", !.h = h,
                                      !.settled = Settles(h, "false")])
    /\ handles' = [handles EXCEPT ![h] = [st |-> "retrying", promise |-> "resolved"]]
    /\ UNCHANGED <<socket, localDisconnect, cmdVars, listeners>>
    /\ UNCHANGED extVars

\* socket.on('reconnect') of handle h
SocketReconnect(h) ==
    /\ handles[h].st = "retrying"
    /\ connected' = TRUE
    /\ reconnectAttempts' = 0
    /\ delayLog' = <<>>
    /\ handles' = [handles EXCEPT ![h].st = "reopened"]
    /\ turn' = [Turn0 EXCEPT !.op = "sock_reconnect", !.h = h,
                  !.published = <<Ev("connection", "true"), Ev("alert", "success")>>]
    /\ UNCHANGED <<socket, connectionTimeout, timers, localDisconnect, cmdVars, listeners>>
    /\ UNCHANGED extVars

\* socket.on('reconnect_error') of handle h
SocketReconnectError(h) ==
    /\ handles[h].st = "retrying"
    /\ HandleConnectionError(<<>>, [Turn0 EXCEPT !.op = "sock_reconnect_error", !.h = h])
    /\ UNCHANGED <<socket, connectionTimeout, handles, localDisconnect, cmdVars, listeners>>
    /\ UNCHANGED extVars

\* socket.on('disconnect') of handle h, the transport reporting the loss of the connection
SocketDisconnect(h, reason) ==
    /\ handles[h].st = "connected"
    /\ LET t == [Turn0 EXCEPT !.op = "sock_disconnect", !.h = h, !.arg = reason]
       IN IF reason = "io server disconnect"
          THEN /\ HandleConnectionError(<<Ev("connection", "false")>>, t)
               /\ handles' = Reclaim(Closed(handles, h))
          ELSE /\ connected' = FALSE
               /\ turn' = [t EXCEPT !.published = <<Ev("connection", "false")>>]
               /\ handles' = [handles EXCEPT ![h].st = "retrying"]
               /\ UNCHANGED <<reconnectAttempts, timers, delayLog>>
    /\ UNCHANGED <<socket, connectionTimeout, localDisconnect, cmdVars, listeners>>
    /\ UNCHANGED extVars

\* disconnect() called by a consumer of the service
Disconnect ==
    /\ connected' = FALSE
    /\ reconnectAttempts' = 0
    /\ delayLog' = <<>>
    /\ connectionTimeout' = 0
    /\ handles' = Reclaim(Closed(handles, socket))
    /\ socket' = 0
    /\ localDisconnect' = TRUE
    /\ turn' = [Turn0 EXCEPT !.op = "disconnect",
                  !.published = ClosePublishes(socket) \o <<Ev("connection", "false")>>]
    /\ UNCHANGED <<timers, cmdVars, listeners>>
    /\ UNCHANGED extVars

\* ---------------------------------------------------- command dispatcher
ControlActions == {"water", "light", "nutrients"}

\* const deviceId = this.plantType === 'level1' ? 'esp32_1' : 'esp32_2'
DeviceOf(pt) == IF pt = "level1" THEN "esp32_1" ELSE "esp32_2"

\* what the server (or the network) answers to the POST of sendCommand:
\*   ok               response.ok and a JSON body
\*   okBadJson        response.ok and response.json() rejects
\*   rejected         !response.ok, the JSON body has a message
\*   rejectedNoMsg    !response.ok, the JSON body has no message
\*   rejectedBadJson  !response.ok and response.json() rejects
\*   networkError     fetch() rejects
FetchOutcomes ==
    {"ok", "okBadJson", "rejected", "rejectedNoMsg", "rejectedBadJson", "networkError"}

\* the guard of sendCommand: if (!this.connected || !this.socket)
NotConnectedNoSocket(c, s) == s = 0
NotConnected(c, s) == ~c \/ s = 0

\* sendCommand(action) up to its first await
SendCommand(a) ==
    /\ IF NotConnected(connected, socket)
       THEN /\ turn' = [Turn0 EXCEPT !.op = "sendCommand", !.arg = a,
                          !.published = <<EvMsg("controlError", a, "notConnected")>>,
                          !.cmdRet = "false"]
            /\ UNCHANGED fetches
       ELSE /\ Len(fetches) < MaxFetch
            /\ LET req == [action |-> a, deviceId |-> DeviceOf(plantType),
                           plantType |-> plantType]
               IN /\ fetches' = Append(fetches, req)
                  /\ turn' = [Turn0 EXCEPT !.op = "sendCommand", !.arg = a,
                                !.requests = <<req>>]
    /\ UNCHANGED <<connVars, wateringActive, lightActive, plantType, listeners>>
    /\ UNCHANGED extVars

\* the message of the controlError of a failed request: error.message of the JSON body of
\* a !response.ok answer when it has one, else a text built around "Failed to send command"
ErrorMessageGeneric(outcome) == "generic"
ErrorMessage(outcome) == IF outcome = "rejected" THEN "server" ELSE "generic"

\* sendCommand(action) from the answer of fetch() to its return
FetchResponse(i, outcome) ==
    /\ i \in 1..Len(fetches)
    /\ LET a == fetches[i].action
           t == [Turn0 EXCEPT !.op = "fetchResponse", !.arg = a, !.outcome = outcome]
       IN /\ fetches' = SubSeq(fetches, 1, i - 1) \o SubSeq(fetches, i + 1, Len(fetches))
          /\ IF outcome = "ok"
             THEN /\ wateringActive' = IF a = "water" THEN ~wateringActive ELSE wateringActive
                  /\ lightActive' = IF a = "light" THEN ~lightActive ELSE lightActive
                  /\ turn' = [t EXCEPT !.cmdRet = "true"]
             ELSE /\ UNCHANGED <<wateringActive, lightActive>>
                  /\ turn' = [t EXCEPT !.cmdRet = "false",
                                !.published = <<EvMsg("controlError", a,
                                                      ErrorMessage(outcome))>>]
    /\ UNCHANGED <<connVars, plantType, listeners>>
    /\ UNCHANGED extVars

\* -------------------------------------------------------------- event hub
EventNames == {"data", "alert"}
Callbacks == {1, 2, 3}
\* the callbacks that throw when they are called
ThrowingCallbacks == {3}

\* this.listeners.get(event), [] when the Map has no such key
Subscribers(e) == IF e \in DOMAIN listeners THEN listeners[e] ELSE <<>>

\* callbacks.indexOf(callback): the first index holding cb, 0 when there is none
IndexOf(list, cb) ==
    IF \E i \in 1..Len(list) : list[i] = cb
    THEN CHOOSE i \in 1..Len(list) :
            list[i] = cb /\ \A j \in 1..Len(list) : list[j] = cb => i <= j
    ELSE 0

\* callbacks.splice(index, 1)
Splice(list, i) == SubSeq(list, 1, i - 1) \o SubSeq(list, i + 1, Len(list))

\* callbacks.forEach(callback => callback(data)): the calls made, in order; the
\* exception of a callback leaves forEach and emit
FirstThrower(list) ==
    IF \E i \in 1..Len(list) : list[i] \in ThrowingCallbacks
    THEN CHOOSE i \in 1..Len(list) :
            list[i] \in ThrowingCallbacks
            /\ \A j \in 1..Len(list) : list[j] \in ThrowingCallbacks => i <= j
    ELSE 0
ForEach(list) ==
    IF FirstThrower(list) = 0 THEN list ELSE SubSeq(list, 1, FirstThrower(list))

\* this.listeners after on(event, callback)
Pushed(ls, e, cb) ==
    [x \in DOMAIN ls \cup {e} |->
        IF x = e THEN Append(IF e \in DOMAIN ls THEN ls[e] ELSE <<>>, cb) ELSE ls[x]]

\* this.listeners after off(event, callback)
RemovedNone(ls, e, cb) == ls
Removed(ls, e, cb) ==
    IF e \in DOMAIN ls /\ IndexOf(ls[e], cb) # 0
    THEN [ls EXCEPT ![e] = Splice(@, IndexOf(@, cb))]
    ELSE ls

\* on(event, callback)
On(e, cb) ==
    /\ Len(Subscribers(e)) < MaxSubscribers
    /\ listeners' = Pushed(listeners, e, cb)
    /\ turn' = [Turn0 EXCEPT !.op = "on", !.arg = e, !.h = cb]
    /\ UNCHANGED <<connVars, cmdVars>>
    /\ UNCHANGED extVars

\* off(event, callback)
Off(e, cb) ==
    /\ listeners' = Removed(listeners, e, cb)
    /\ turn' = [Turn0 EXCEPT !.op = "off", !.arg = e, !.h = cb]
    /\ UNCHANGED <<connVars, cmdVars>>
    /\ UNCHANGED extVars

\* emit(event, data)
Emit(e) ==
    /\ turn' = [Turn0 EXCEPT !.op = "emit", !.arg = e,
                  !.invoked = ForEach(Subscribers(e)),
                  !.thrown = (FirstThrower(Subscribers(e)) # 0)]
    /\ UNCHANGED <<listeners, connVars, cmdVars>>
    /\ UNCHANGED extVars

\* ------------------------------------------------------------------ Spec
ConnNext ==
    \/ Connect
    \/ BackoffFire
    \/ WatchdogFire
    \/ \E h \in Handles : SocketConnect(h)
    \/ \E h \in Handles : SocketConnectError(h)
    \/ \E h \in Handles : SocketReconnect(h)
    \/ \E h \in Handles : SocketReconnectError(h)
    \/ \E h \in Handles : \E r \in {"io server disconnect", "transport close"} :
            SocketDisconnect(h, r)
    \/ Disconnect

Next == ConnNext

Spec == Init /\ [][Next]_vars

\* setTimeout callbacks run once due; a handle that is trying to connect ends the
\* attempt with connect or connect_error
Fairness ==
    /\ WF_vars(WatchdogFire)
    /\ WF_vars(BackoffFire)
    /\ \A h \in Handles : WF_vars(SocketConnect(h) \/ SocketConnectError(h))

FairSpec == Spec /\ Fairness

LiveHandles == Cardinality({h \in Handles : handles[h].st # "free"})

\* connect() by a consumer and by the backoff timer, within the handles CmdSpec explores
CmdConnect == Connect /\ LiveHandles' <= CmdMaxHandles
CmdBackoffFire == BackoffFire /\ LiveHandles' <= CmdMaxHandles

CmdNext ==
    \/ CmdConnect
    \/ CmdBackoffFire
    \/ WatchdogFire
    \/ \E h \in Handles : SocketConnect(h)
    \/ \E h \in Handles : SocketConnectError(h)
    \/ \E h \in Handles : SocketReconnect(h)
    \/ \E h \in Handles : SocketReconnectError(h)
    \/ \E h \in Handles : \E r \in {"io server disconnect", "transport close"} :
            SocketDisconnect(h, r)
    \/ Disconnect
    \/ \E a \in ControlActions : SendCommand(a)
    \/ \E i \in 1..MaxFetch : \E o \in FetchOutcomes : FetchResponse(i, o)

CmdSpec == Init /\ [][CmdNext]_vars

HubNext ==
    \/ \E e \in EventNames : \E cb \in Callbacks : On(e, cb)
    \/ \E e \in EventNames : \E cb \in Callbacks : Off(e, cb)
    \/ \E e \in EventNames : Emit(e)

HubSpec == Init /\ [][HubNext]_vars

\* ------------------------------------------------------ device data combiner
\* the test !esp32_1_data && !esp32_2_data of emitCurrentPlantData
NoSensorDataEither(c) == "esp32_1" \notin DOMAIN c \/ "esp32_2" \notin DOMAIN c
NoSensorData(c) == "esp32_1" \notin DOMAIN c /\ "esp32_2" \notin DOMAIN c

\* combinedData of emitCurrentPlantData for the cache c and the plant type pt
CombinedData(c, pt) ==
    LET esp32_1_data == Cached(c, "esp32_1")
        esp32_2_data == Cached(c, "esp32_2")
        own == IF pt = "level1" THEN esp32_1_data ELSE esp32_2_data
    IN  [temperature |-> Or(esp32_1_data.temperature, Num(20)),
         humidity |-> Or(esp32_1_data.humidity, Num(50)),
         moisture |-> Or(own.moisture, Num(0)),
         sunlight |-> Or(own.sunlight, Num(0)),
         nitrogen |-> Or(own.nitrogen, Num(0)),
         phosphorus |-> Or(own.phosphorus, Num(0)),
         potassium |-> Or(own.potassium, Num(0)),
         waterLevel |-> Or(esp32_1_data.waterLevel, Num(0)),
         fertilizerLevel |-> Or(esp32_2_data.fertilizerLevel, Num(0)),
         timestamp |-> Str("now"),
         deviceId |-> IF pt = "level1" THEN "esp32_1" ELSE "esp32_2"]

\* emitCurrentPlantData() for the cache c and the plant type pt, appended to the turn t
EmitCurrentPlantData(c, pt, t) ==
    IF NoSensorData(c)
    THEN t
    ELSE [t EXCEPT !.published = Append(@, Ev("data", pt)),
                   !.dataEvents = Append(@, CombinedData(c, pt))]

\* array.slice(-n)
LastN(q, n) == IF Len(q) <= n THEN q ELSE SubSeq(q, Len(q) - n + 1, Len(q))

\* the payloads of the dataUpdate events explored: a reading of a warm day and a reading
\* whose values are all 0
WarmPayload ==
    [EmptyPayload EXCEPT !.temperature = Num(25), !.humidity = Num(60),
                         !.moisture_percent = Num(40), !.lux = Num(300),
                         !.npk = Npk(Num(3), Num(4), Num(5)),
                         !.waterLevelPercent = Num(80), !.fertilizer_level = Num(70),
                         !.timestamp = Str("t2")]
ZeroPayload ==
    [EmptyPayload EXCEPT !.temperature = Num(0), !.humidity = Num(0),
                         !.moisture_percent = Num(0), !.lux = Num(0),
                         !.npk = Npk(Num(0), Num(0), Num(0)),
                         !.waterLevelPercent = Num(0), !.fertilizer_level = Num(0),
                         !.timestamp = Str("t1")]

\* an initData event without keys
NoInit ==
    [hasSensorData |-> FALSE, sensorData |-> <<>>,
     hasReservoirLevels |-> FALSE, reservoirLevels |-> DefaultLevels,
     hasDeviceStates |-> FALSE, deviceStates |-> <<>>]

\* the initData events that carry readings; the entry of a device may be null
SensorInits ==
    {[NoInit EXCEPT !.hasSensorData = TRUE,
                    !.sensorData = [d \in DeviceIds |->
                                       [isNull |-> d = "esp32_1", data |-> WarmPayload]]]}

\* the dataUpdate events the store handlers are explored with
StoreUpdates ==
    {[deviceId |-> "esp32_1", hasData |-> TRUE, data |-> WarmPayload, plantType |-> ""]}

\* the dataUpdate events explored; plantType "" and hasData FALSE are missing keys
Updates ==
    [deviceId : DeviceIds, hasData : {TRUE}, data : {WarmPayload, ZeroPayload},
     plantType : {"", "level1", "level2"}]
    \cup {[deviceId |-> "esp32_1", hasData |-> FALSE, data |-> EmptyPayload, plantType |-> ""]}

\* this.currentSensorData[deviceId] = reading, kept only when it carries the later timestamp
StoreIfNewer(c, dev, r) ==
    IF dev \in DOMAIN c /\ c[dev].timestamp = Str("t2") /\ r.timestamp = Str("t1")
    THEN c
    ELSE [d \in DOMAIN c \cup {dev} |-> IF d = dev THEN r ELSE c[d]]
\* this.currentSensorData[deviceId] = reading
Store(c, dev, r) == [d \in DOMAIN c \cup {dev} |-> IF d = dev THEN r ELSE c[d]]

\* update.plantType || (update.deviceId === 'esp32_1' ? 'level1' : 'level2')
RouteByDeviceOnly(pt, dev) == IF dev = "esp32_1" THEN "level1" ELSE "level2"
Route(pt, dev) ==
    IF pt # "" THEN pt ELSE IF dev = "esp32_1" THEN "level1" ELSE "level2"

\* the dataUpdate handler of a handle, run for the event `update`
DataUpdate(h, update) ==
    /\ handles[h].st = "connected"
    /\ LET t == [Turn0 EXCEPT !.op = "dataUpdate", !.h = h, !.arg = update.deviceId,
                              !.updPlant = update.plantType]
       IN  IF update.hasData
           THEN LET r == validateSensorData(update.data, update.deviceId)
                    c == Store(currentSensorData, update.deviceId, r)
                    pt == Route(update.plantType, update.deviceId)
                IN  /\ currentSensorData' = c
                    /\ historicalData' =
                          [historicalData EXCEPT ![pt] = LastN(Append(@, r), historyCap)]
                    /\ turn' = EmitCurrentPlantData(c, plantType,
                                  [t EXCEPT !.delivered =
                                      [d \in {update.deviceId} |-> update.data]])
                    /\ UNCHANGED currentReservoirLevels
           ELSE /\ turn' = t
                /\ UNCHANGED dataVars
    /\ UNCHANGED <<connVars, cmdVars, listeners, normVars, viewVars>>

\* dataUpdate within the history lengths DataSpec explores
BoundedDataUpdate(h, update) ==
    /\ update.hasData =>
          Len(historicalData[Route(update.plantType, update.deviceId)]) < MaxHistory
    /\ DataUpdate(h, update)

\* Object.keys(data.sensorData).forEach(...) of initData: a null entry is skipped
RECURSIVE ForEachDevice(_, _, _)
ForEachDevice(c, sensorData, keys) ==
    IF keys = {} THEN c
    ELSE LET d == CHOOSE k \in keys : TRUE
         IN  ForEachDevice(IF sensorData[d].isNull THEN c
                           ELSE Store(c, d, validateSensorData(sensorData[d].data, d)),
                           sensorData, keys \ {d})

\* the initData handler of a handle, run for the event `init`; a has... flag that is
\* FALSE is a missing key
InitData(h, init) ==
    /\ handles[h].st = "connected"
    /\ LET c == IF init.hasSensorData
                THEN ForEachDevice(currentSensorData, init.sensorData,
                                   DOMAIN init.sensorData)
                ELSE currentSensorData
           t0 == [Turn0 EXCEPT !.op = "initData", !.h = h,
                    !.delivered = IF init.hasSensorData
                                  THEN [d \in {k \in DOMAIN init.sensorData :
                                                  ~init.sensorData[k].isNull} |->
                                            init.sensorData[d].data]
                                  ELSE <<>>]
           t1 == IF init.hasSensorData THEN EmitCurrentPlantData(c, plantType, t0) ELSE t0
           t2 == IF init.hasReservoirLevels
                 THEN [t1 EXCEPT !.published =
                          Append(@, Ev("reservoir", init.reservoirLevels))]
                 ELSE t1
           ds == init.deviceStates
           cur == DeviceOf(plantType)
       IN  /\ currentSensorData' = c
           /\ currentReservoirLevels' =
                 IF init.hasReservoirLevels THEN init.reservoirLevels
                 ELSE currentReservoirLevels
           /\ wateringActive' =
                 IF init.hasDeviceStates /\ "esp32_1" \in DOMAIN ds /\ ~ds["esp32_1"].isNull
                 THEN Truthy(ds["esp32_1"].waterPump) ELSE wateringActive
           /\ lightActive' =
                 IF init.hasDeviceStates /\ cur \in DOMAIN ds /\ ~ds[cur].isNull
                 THEN Truthy(ds[cur].light) ELSE lightActive
           /\ turn' = t2
    /\ UNCHANGED <<connVars, plantType, fetches, listeners, historicalData, normVars,
                   viewVars>>

\* the reservoirUpdate handler of a handle
ReservoirUpdate(h, levels) ==
    /\ handles[h].st = "connected"
    /\ currentReservoirLevels' = levels
    /\ turn' = [Turn0 EXCEPT !.op = "reservoirUpdate", !.h = h,
                  !.published = <<Ev("reservoir", levels)>>]
    /\ UNCHANGED <<connVars, cmdVars, listeners, currentSensorData, historicalData,
                   normVars, viewVars>>

\* the controlResponse handler of a handle; the flags hold the truth value of
\* response.active || false
ControlResponse(h, response) ==
    /\ handles[h].st = "connected"
    /\ wateringActive' = IF response.action = "water"
                         THEN Truthy(Or(response.active, JSFalse)) ELSE wateringActive
    /\ lightActive' = IF response.action = "light"
                      THEN Truthy(Or(response.active, JSFalse)) ELSE lightActive
    /\ turn' = [Turn0 EXCEPT !.op = "controlResponse", !.h = h, !.arg = response.action,
                  !.published =
                      <<Ev(IF Truthy(response.success) THEN "controlSuccess"
                           ELSE "controlError", response.action)>>]
    /\ UNCHANGED <<connVars, plantType, fetches, listeners, extVars>>

\* mapCommandToAction(command)
mapCommandToAction(command) ==
    CASE command = "water_pump" -> "water"
      [] command = "light_on" -> "light"
      [] command = "light_off" -> "light"
      [] command = "add_nutrients" -> "nutrients"
      [] command = "fert_pump" -> "nutrients"
      [] command = "led" -> "light"
      [] OTHER -> command

\* the commandIssued handler of a handle
CommandIssued(h, command) ==
    /\ handles[h].st = "connected"
    /\ wateringActive' = IF command.command = "water_pump"
                         THEN Truthy(command.value) ELSE wateringActive
    /\ lightActive' = IF command.command \in {"light_on", "light_off"}
                      THEN command.command = "light_on" ELSE lightActive
    /\ turn' = [Turn0 EXCEPT !.op = "commandIssued", !.h = h, !.arg = command.command,
                  !.published =
                      <<Ev("controlSuccess", mapCommandToAction(command.command))>>]
    /\ UNCHANGED <<connVars, plantType, fetches, listeners, extVars>>

\* the commandTimeout handler of a handle
CommandTimeout(h, command) ==
    /\ handles[h].st = "connected"
    /\ turn' = [Turn0 EXCEPT !.op = "commandTimeout", !.h = h, !.arg = command.command,
                  !.published =
                      <<Ev("controlError", mapCommandToAction(command.command))>>]
    /\ UNCHANGED <<connVars, cmdVars, listeners, extVars>>

\* setActivePlant(type)
SetActivePlant(type) ==
    /\ plantType' = type
    /\ LET t == [Turn0 EXCEPT !.op = "setActivePlant", !.arg = type,
                              !.emitted = IF socket # 0 /\ connected
                                          THEN <<Ev("setPlantType", type)>> ELSE <<>>]
       IN  turn' = EmitCurrentPlantData(currentSensorData, type, t)
    /\ UNCHANGED <<connVars, wateringActive, lightActive, fetches, listeners, extVars>>

\* the data path over the connections that connect and are closed by the consumer
DataNext ==
    \/ CmdConnect
    \/ \E h \in Handles : SocketConnect(h)
    \/ Disconnect
    \/ \E h \in Handles : \E u \in Updates : BoundedDataUpdate(h, u)
    \/ \E h \in Handles : \E i \in SensorInits : InitData(h, i)
    \/ \E type \in PlantTypes : SetActivePlant(type)

DataSpec == Init /\ [][DataNext]_vars

\* the reservoir snapshots the server sends
Levels == {[water |-> 40, waterCm |-> 8, fertilizer |-> 60, fertilizerCm |-> 12]}

\* the initData events that carry device states or reservoir levels
StateInits ==
    {[NoInit EXCEPT !.hasReservoirLevels = TRUE, !.reservoirLevels = l] : l \in Levels}
    \cup {[NoInit EXCEPT !.hasDeviceStates = TRUE,
                          !.deviceStates = [d \in {dev} |->
                              [isNull |-> FALSE, waterPump |-> w, light |-> JSTrue]]] :
             dev \in DeviceIds, w \in {JSTrue, JSFalse}}

\* the controlResponse, commandIssued and commandTimeout events explored
Responses ==
    [action : {"water", "light"}, active : {JSTrue, JSUndefined},
     success : {JSTrue, JSFalse}]
Commands ==
    {[command |-> "water_pump", value |-> Num(1)],
     [command |-> "water_pump", value |-> Num(0)],
     [command |-> "light_on", value |-> JSUndefined],
     [command |-> "light_off", value |-> JSUndefined],
     [command |-> "fert_pump", value |-> Num(1)]}

\* the handlers that write the shared stores, over one connection
StoreNext ==
    \/ CmdConnect
    \/ \E h \in Handles : SocketConnect(h)
    \/ Disconnect
    \/ \E h \in Handles : \E i \in StateInits \cup SensorInits : InitData(h, i)
    \/ \E h \in Handles : \E u \in StoreUpdates : BoundedDataUpdate(h, u)
    \/ \E h \in Handles : \E l \in Levels : ReservoirUpdate(h, l)
    \/ \E h \in Handles : \E r \in Responses : ControlResponse(h, r)
    \/ \E h \in Handles : \E c \in Commands : CommandIssued(h, c)
    \/ \E h \in Handles : \E c \in Commands : CommandTimeout(h, c)
    \/ \E type \in PlantTypes : SetActivePlant(type)
    \/ \E a \in ControlActions : SendCommand(a)
    \/ \E i \in 1..MaxFetch : \E o \in {"ok", "rejected"} : FetchResponse(i, o)

StoreSpec == Init /\ [][StoreNext]_vars

\* getHistoricalData(): the list the returned promise resolves with
GetHistoricalData ==
    /\ turn' = [Turn0 EXCEPT !.op = "getHistoricalData", !.arg = plantType,
                  !.returned = IF plantType \in DOMAIN historicalData
                               THEN historicalData[plantType] ELSE <<>>]
    /\ UNCHANGED <<connVars, cmdVars, listeners, extVars>>

\* the dataUpdate event that fills the history of level1, and the ones that differ from
\* it: another payload, a device that is neither esp32_1 nor esp32_2, a plantType key
FillUpdate ==
    [deviceId |-> "esp32_1", hasData |-> TRUE, data |-> WarmPayload, plantType |-> ""]
HistUpdates ==
    {FillUpdate,
     [FillUpdate EXCEPT !.data = ZeroPayload],
     [FillUpdate EXCEPT !.deviceId = "esp32_3"],
     [FillUpdate EXCEPT !.deviceId = "esp32_2", !.plantType = "level1"]}

\* some reading of the list differs from the one FillUpdate stores
Varied(q) ==
    \E i \in 1..Len(q) : q[i] # validateSensorData(WarmPayload, "esp32_1")

\* dataUpdate within the histories HistSpec explores: level1 is filled by FillUpdate
\* and takes another reading once it is about to be full and holds no other one;
\* level2 stays short
HistUpdate(h, update) ==
    /\ LET pt == Route(update.plantType, update.deviceId)
       IN  IF pt = "level1"
           THEN update # FillUpdate =>
                   /\ Len(historicalData[pt]) >= historyCap - 1
                   /\ ~Varied(historicalData[pt])
           ELSE Len(historicalData[pt]) < MaxHistory
    /\ DataUpdate(h, update)

\* connect() while no handle is open
HistConnect == Connect /\ LiveHandles' = 1

\* the history path over one connection
HistNext ==
    \/ HistConnect
    \/ \E h \in Handles : SocketConnect(h)
    \/ \E h \in Handles : \E u \in HistUpdates : HistUpdate(h, u)
    \/ \E type \in PlantTypes : SetActivePlant(type)
    \/ GetHistoricalData

HistSpec == Init /\ [][HistNext]_vars

\* ------------------------------------------- the normalizer on its own
\* the values a payload key holds in the payloads explored
RawValues ==
    {JSUndefined, JSNull, Str(""), Str("abc"), Str("7"), Str("Infinity"), Num(0), Num(55)}
NpkValues ==
    {NoNpk, NullNpk, Npk(Num(3), Num(0), JSUndefined), Npk(Str("abc"), Str("7"), JSNull)}

\* the payloads explored: {} with npk and up to two other keys set
Payloads ==
    {[[[EmptyPayload EXCEPT !.npk = o] EXCEPT ![k1] = v1] EXCEPT ![k2] = v2] :
        o \in NpkValues, k1 \in ScalarKeys, v1 \in RawValues,
        k2 \in ScalarKeys, v2 \in RawValues}

NormInit ==
    /\ ServiceInit
    /\ payload \in Payloads
    /\ deviceId \in DeviceIds
    /\ reading = <<>>
    /\ AggIdle
    /\ ChartIdle

\* one call validateSensorData(payload, deviceId, plantType)
Normalize ==
    /\ turn.op # "normalize"
    /\ deviceId # "none"
    /\ reading' = validateSensorData(payload, deviceId)
    /\ turn' = [Turn0 EXCEPT !.op = "normalize"]
    /\ UNCHANGED <<connVars, cmdVars, listeners, dataVars, payload, deviceId, viewVars>>

NormNext == Normalize

NormSpec == NormInit /\ [][NormNext]_vars

\* ------------------------------------------------------ historical aggregator
\* A value of a point is a rational number num/den in lowest terms, den > 0.
RECURSIVE GCD(_, _)
GCD(a, b) == IF b = 0 THEN a ELSE GCD(b, a % b)
Abs(x) == IF x < 0 THEN -x ELSE x
Rat(n, d) == LET g == GCD(Abs(n), d) IN [num |-> n \div g, den |-> d \div g]
RatAdd(a, b) == Rat(a.num * b.den + b.num * a.den, a.den * b.den)
\* a / k for an integer k > 0
RatDiv(a, k) == Rat(a.num, a.den * k)

\* the text of the instant ms, as toISOString() writes it
Iso(ms) == [t |-> "string", n |-> ms, s |-> "iso"]
ToISOString(ms) == Iso(ms)
\* new Date(timestamp).getTime(): the instant of a text that parses, else NaN
GetTime(ts) == IF ts.t = "string" /\ ts.s = "iso" THEN Num(ts.n) ELSE JSNaN

\* Math.floor(time / intervalMs) * intervalMs
bucketKeyRounded(time) == ((time + intervalMs \div 2) \div intervalMs) * intervalMs
bucketKey(time) == (time \div intervalMs) * intervalMs

\* the body of rawData.forEach: the buckets, in insertion order, after the point
AddPoint(buckets, point) ==
    LET time == GetTime(point.timestamp)
    IN  IF IsNaN(time) THEN buckets
        ELSE LET key == bucketKey(time.n)
                 known == {i \in 1..Len(buckets) : buckets[i].key = key}
             IN  IF known = {}
                 THEN Append(buckets, [key |-> key, sum |-> point.value, count |-> 1,
                                       timestamp |-> ToISOString(key)])
                 ELSE LET i == CHOOSE i \in known : TRUE
                      IN  [buckets EXCEPT ![i].sum = RatAdd(@, point.value),
                                          ![i].count = @ + 1]

\* rawData.forEach(...): the points in order, the first half before the second; the
\* buckets of the points before are complete (Len) when the next point is taken
RECURSIVE ForEachPoint(_, _)
ForEachPoint(buckets, points) ==
    IF Len(buckets) < 0 \/ points = <<>> THEN buckets
    ELSE IF Len(points) = 1 THEN AddPoint(buckets, points[1])
    ELSE LET half == Len(points) \div 2
         IN  ForEachPoint(ForEachPoint(buckets, SubSeq(points, 1, half)),
                          SubSeq(points, half + 1, Len(points)))

\* the comparison of the sort: by the parsed timestamps
Earlier(a, b) == GetTime(a.timestamp).n < GetTime(b.timestamp).n

\* averageDataPoints(rawData)
averageDataPoints(points) ==
    IF points = <<>> THEN <<>>
    ELSE LET buckets == ForEachPoint(<<>>, points)
             mapped == [i \in 1..Len(buckets) |->
                          [timestamp |-> buckets[i].timestamp,
                           value |-> IF buckets[i].count > 0
                                     THEN RatDiv(buckets[i].sum, buckets[i].count)
                                     ELSE Rat(0, 1),
                           count |-> buckets[i].count]]
         IN  LastN(SortSeq(mapped, Earlier), maxPoints)

\* ---- the aggregator on its own
\* a point of the inputs explored
Point(ts, v) == [timestamp |-> ts, value |-> Rat(v, 1)]

\* k points, one in each of k consecutive buckets, the latest bucket first
Run(k) == [i \in 1..k |-> Point(Iso((k - i + 1) * intervalMs + 1000), 10)]

\* the points that follow the run: in bucket 0 (10 s and 60 s), before 1970, in a bucket
\* of the run, after the run, and with a text that is no date
TailPoints ==
    {Point(Iso(10000), 10), Point(Iso(60000), 20), Point(Iso(60000), 10),
     Point(Iso(-1), 10), Point(Iso(2 * intervalMs), 20),
     Point(Iso(70 * intervalMs + 299999), 10), Point(Str("abc"), 20)}

RECURSIVE SeqsUpTo(_, _)
SeqsUpTo(S, n) ==
    IF n = 0 THEN {<<>>}
    ELSE LET shorter == SeqsUpTo(S, n - 1)
         IN  shorter \cup {Append(q, x) : q \in shorter, x \in S}

\* the inputs explored: a run of 0, 59, 60 or 61 buckets followed by up to MaxTail points
Inputs == {Run(k) \o q : k \in {0, maxPoints - 1, maxPoints, maxPoints + 1},
                         q \in SeqsUpTo(TailPoints, MaxTail)}

AggInit ==
    /\ ServiceInit
    /\ NormIdle
    /\ rawData \in Inputs
    /\ averaged = <<>>
    /\ ChartIdle

\* one call averageDataPoints(rawData)
Aggregate ==
    /\ turn.op # "aggregate"
    /\ averaged' = averageDataPoints(rawData)
    /\ turn' = [Turn0 EXCEPT !.op = "aggregate"]
    /\ UNCHANGED <<connVars, cmdVars, listeners, dataVars, normVars, rawData, chartVars>>

AggNext == Aggregate

AggSpec == AggInit /\ [][AggNext]_vars

\* ------------------------------------------------------------ the chart
\* the step of the clock: half the debounce delay
TickMs == debounceMs \div 2
\* the time at which the chart is mounted
mountTime == 8 * debounceMs

\* the histories getHistoricalData() resolves with: readings of 10 s and 60 s, in one bucket
Histories ==
    {<<>>,
     <<[timestamp |-> Iso(10000), moisture |-> Rat(10, 1)]>>,
     <<[timestamp |-> Iso(10000), moisture |-> Rat(10, 1)],
       [timestamp |-> Iso(60000), moisture |-> Rat(20, 1)]>>}

\* the value of a reading that a chart of dataType 'moisture' plots
ValueOf(item) == item.moisture

\* clearTimeout(id): 0 and the id of a timer that has fired cancel nothing
CancelledNone(ts, id) == ts
Cancelled(ts, id) == {t \in ts : t.id # id}

\* the effect of the chart has run: the handler is subscribed and the history is awaited
ChartInit ==
    /\ ServiceInit
    /\ NormIdle
    /\ AggIdle
    /\ data = <<>>
    /\ updateTimeout = 0
    /\ timeouts = {}
    /\ clock = mountTime
    /\ timeoutIds = 0
    /\ applied = <<>>
    /\ effects = <<>>
    /\ lastEventAt = -1

\* fetchHistoricalData() from the answer of getHistoricalData() on: the promise of the
\* async method is settled in the turn of the effect
FetchHistoricalData(historicalData_) ==
    /\ turn.op = "init"
    /\ LET processedData == [i \in 1..Len(historicalData_) |->
                                [timestamp |-> historicalData_[i].timestamp,
                                 value |-> ValueOf(historicalData_[i])]]
       IN  /\ data' = averageDataPoints(processedData)
           /\ applied' = processedData
    /\ turn' = [Turn0 EXCEPT !.op = "fetchHistoricalData"]
    /\ UNCHANGED <<connVars, cmdVars, listeners, dataVars, normVars, aggVars,
                   updateTimeout, timeouts, clock, timeoutIds, effects, lastEventAt>>

\* handleDataUpdate(newData), called by emit('data', ...) of the service at the time `clock`
HandleDataUpdate(v) ==
    /\ turn.op # "init"
    /\ timeoutIds < MaxEvents
    /\ LET newData == [timestamp |-> Iso(clock), moisture |-> Rat(v, 1)]
           id == timeoutIds + 1
       IN  /\ timeouts' = Cancelled(timeouts, updateTimeout)
                            \cup {[id |-> id, due |-> clock + debounceMs, newData |-> newData]}
           /\ updateTimeout' = id
           /\ timeoutIds' = id
           /\ turn' = [Turn0 EXCEPT !.op = "handleDataUpdate", !.h = id]
    /\ lastEventAt' = clock
    /\ UNCHANGED <<connVars, cmdVars, listeners, dataVars, normVars, aggVars,
                   data, clock, applied, effects>>

\* the callback of a timer of handleDataUpdate, run when the timer is due
TimeoutFire ==
    /\ \E t \in timeouts :
          /\ t.due <= clock
          /\ LET newPoint == [timestamp |-> t.newData.timestamp, value |-> ValueOf(t.newData)]
                 updatedRawData ==
                     [i \in 1..Len(data) |->
                         [timestamp |-> data[i].timestamp, value |-> data[i].value]]
                     \o <<newPoint>>
             IN  /\ data' = averageDataPoints(updatedRawData)
                 /\ applied' = Append(applied, newPoint)
          /\ timeouts' = timeouts \ {t}
          /\ turn' = [Turn0 EXCEPT !.op = "timeoutFire", !.h = t.id]
    /\ UNCHANGED <<connVars, cmdVars, listeners, dataVars, normVars, aggVars,
                   updateTimeout, clock, timeoutIds, effects, lastEventAt>>

\* time passes; a timer that is due runs before time passes further
Tick ==
    /\ turn.op # "init"
    /\ clock < mountTime + MaxTicks * TickMs
    /\ \A t \in timeouts : t.due > clock
    /\ clock' = clock + TickMs
    /\ turn' = [Turn0 EXCEPT !.op = "tick"]
    /\ UNCHANGED <<connVars, cmdVars, listeners, dataVars, normVars, aggVars,
                   data, updateTimeout, timeouts, timeoutIds, applied, effects,
                   lastEventAt>>

ChartNext ==
    \/ \E h \in Histories : FetchHistoricalData(h)
    \/ \E v \in {10, 40} : HandleDataUpdate(v)
    \/ TimeoutFire
    \/ Tick

ChartSpec == ChartInit /\ [][ChartNext]_vars

\* ------------------------------------------------- the chart's subscription
\* handleDataUpdate of the e-th run of the effect: a callback of its own, distinct from
\* the callbacks of the other subscribers
HandlerOf(e) == Cardinality(Callbacks) + e

\* the service exists, no chart is mounted yet
LifeInit ==
    /\ ServiceInit
    /\ NormIdle
    /\ AggIdle
    /\ data = <<>>
    /\ updateTimeout = 0
    /\ timeouts = {}
    /\ clock = mountTime
    /\ timeoutIds = 0
    /\ applied = <<>>
    /\ effects = <<>>
    /\ lastEventAt = -1

\* the effect runs, at mount or after the cleanup that a change of dataType caused:
\* fetchHistoricalData() up to its await, then arduinoService.on('data', handleDataUpdate)
RunEffect ==
    /\ Len(effects) < MaxEffects
    /\ \A e \in 1..Len(effects) : ~effects[e].isMounted
    /\ Len(Subscribers("data")) < MaxSubscribers
    /\ LET e == Len(effects) + 1
       IN  /\ effects' = Append(effects, [isMounted |-> TRUE, updateTimeout |-> 0,
                                          fetching |-> TRUE, cancelled |-> FALSE])
           /\ listeners' = Pushed(listeners, "data", HandlerOf(e))
           /\ turn' = [Turn0 EXCEPT !.op = "effect", !.effect = e]
    /\ UNCHANGED <<connVars, cmdVars, dataVars, normVars, aggVars,
                   data, updateTimeout, timeouts, clock, timeoutIds, applied, lastEventAt>>

\* fetchHistoricalData() of the e-th run from the answer of getHistoricalData() on
FetchResolved(e, historicalData_) ==
    /\ e \in 1..Len(effects)
    /\ effects[e].fetching
    /\ effects' = [effects EXCEPT ![e].fetching = FALSE]
    /\ IF ~effects[e].isMounted
       THEN /\ turn' = [Turn0 EXCEPT !.op = "fetchHistoricalData", !.effect = e,
                          !.outcome = "unmounted"]
            /\ UNCHANGED <<data, applied>>
       ELSE LET processedData == [i \in 1..Len(historicalData_) |->
                                    [timestamp |-> historicalData_[i].timestamp,
                                     value |-> ValueOf(historicalData_[i])]]
            IN  /\ data' = averageDataPoints(processedData)
                /\ applied' = processedData
                /\ turn' = [Turn0 EXCEPT !.op = "fetchHistoricalData", !.effect = e,
                              !.outcome = "setData"]
    /\ UNCHANGED <<connVars, cmdVars, listeners, dataVars, normVars, aggVars,
                   updateTimeout, timeouts, clock, timeoutIds, lastEventAt>>

\* callbacks.forEach(callback => callback(newData)) over the subscribers of 'data':
\* handleDataUpdate of a run of the effect clears the timer of its closure and sets a
\* new one; the other subscribers leave the chart alone
RECURSIVE Dispatch(_, _, _)
Dispatch(st, called, newData) ==
    IF called = <<>> THEN st
    ELSE LET cb == Head(called)
             e == cb - Cardinality(Callbacks)
             id == st.timeoutIds + 1
         IN  Dispatch(IF cb \in Callbacks THEN st
                      ELSE [effects |-> [st.effects EXCEPT ![e].updateTimeout = id],
                            timeouts |->
                                Cancelled(st.timeouts, st.effects[e].updateTimeout)
                                \cup {[id |-> id, due |-> clock + debounceMs,
                                       newData |-> newData, owner |-> e]},
                            timeoutIds |-> id],
                      Tail(called), newData)

\* emit('data', newData) of the service at the time `clock`
PublishData(v) ==
    /\ timeoutIds < MaxEvents
    /\ LET newData == [timestamp |-> Iso(clock), moisture |-> Rat(v, 1)]
           called == ForEach(Subscribers("data"))
           st == Dispatch([effects |-> effects, timeouts |-> timeouts,
                           timeoutIds |-> timeoutIds], called, newData)
       IN  /\ effects' = st.effects
           /\ timeouts' = st.timeouts
           /\ timeoutIds' = st.timeoutIds
           /\ turn' = [Turn0 EXCEPT !.op = "emit", !.arg = "data", !.invoked = called]
    /\ lastEventAt' = clock
    /\ UNCHANGED <<connVars, cmdVars, listeners, dataVars, normVars, aggVars,
                   data, updateTimeout, clock, applied>>

\* the callback of a timer of handleDataUpdate, run when the timer is due
EffectTimeoutFire ==
    /\ \E t \in timeouts :
          /\ t.due <= clock
          /\ LET newPoint == [timestamp |-> t.newData.timestamp, value |-> ValueOf(t.newData)]
                 updatedRawData ==
                     [i \in 1..Len(data) |->
                         [timestamp |-> data[i].timestamp, value |-> data[i].value]]
                     \o <<newPoint>>
             IN  /\ data' = averageDataPoints(updatedRawData)
                 /\ applied' = Append(applied, newPoint)
          /\ timeouts' = timeouts \ {t}
          /\ turn' = [Turn0 EXCEPT !.op = "timeoutFire", !.h = t.id, !.effect = t.owner]
    /\ UNCHANGED <<connVars, cmdVars, listeners, dataVars, normVars, aggVars,
                   updateTimeout, clock, timeoutIds, effects, lastEventAt>>

\* the cleanup of the e-th run of the effect, at unmount or when dataType changes
Cleanup(e) ==
    /\ e \in 1..Len(effects)
    /\ effects[e].isMounted
    /\ effects' = [effects EXCEPT ![e].isMounted = FALSE,
                                  ![e].cancelled =
                                      \E t \in timeouts : t.id = effects[e].updateTimeout]
    /\ timeouts' = Cancelled(timeouts, effects[e].updateTimeout)
    /\ listeners' = Removed(listeners, "data", HandlerOf(e))
    /\ turn' = [Turn0 EXCEPT !.op = "cleanup", !.effect = e]
    /\ UNCHANGED <<connVars, cmdVars, dataVars, normVars, aggVars,
                   data, updateTimeout, clock, timeoutIds, applied, lastEventAt>>

\* time passes, up to one debounce delay after the mount
EffectTick ==
    /\ clock < mountTime + debounceMs
    /\ Tick

\* the callbacks of the other components that subscribe to 'data'
OtherSubscribers == {cb \in Callbacks \ ThrowingCallbacks : \A c \in Callbacks : cb <= c}

\* the history getHistoricalData() resolves with while the subscription is followed
LifeHistories == {h \in Histories : Len(h) = 1}

\* the chart's effect next to the other subscribers of 'data'
LifeNext ==
    \/ RunEffect
    \/ \E e \in 1..MaxEffects : \E h \in LifeHistories : FetchResolved(e, h)
    \/ \E e \in 1..MaxEffects : Cleanup(e)
    \/ \E cb \in OtherSubscribers : On("data", cb)
    \/ PublishData(40)
    \/ EffectTimeoutFire
    \/ EffectTick

LifeSpec == LifeInit /\ [][LifeNext]_vars

\* ================================================================ claims
Published(e) == \E i \in 1..Len(turn.published) : turn.published[i] = e

\* the last turn ran handleConnectionError
FailureHandled ==
    \/ turn.op \in {"sock_connect_error", "sock_reconnect_error"}
    \/ turn.op = "watchdog" /\ turn.published # <<>>
    \/ turn.op = "sock_disconnect" /\ turn.arg = "io server disconnect"

\* C1 (as stated): five consecutive failed attempts yield the backoff delays 5000, 7500,
\* 11250, 16875, 20000 in that order and end in Failed with an error event published.
Cex_C1 ==
    (FailureHandled /\ reconnectAttempts = maxReconnectAttempts) =>
        /\ delayLog = <<5000, 7500, 11250, 16875, 20000>>
        /\ Published(Ev("error", "failed"))
        /\ ~connected

\* C1 (amended): the k-th consecutive failure, k = 1..4, schedules the k-th of the delays
\* 5000, 7500, 11250, 16875; the fifth failure schedules no retry (no fifth delay), leaves
\* the manager not connected with the counter at maxReconnectAttempts and publishes error.
Thm_C1 ==
    /\ Len(delayLog) = IF reconnectAttempts < maxReconnectAttempts
                          THEN reconnectAttempts ELSE maxReconnectAttempts - 1
    /\ delayLog = SubSeq(<<5000, 7500, 11250, 16875>>, 1, Len(delayLog))
    /\ (FailureHandled /\ reconnectAttempts = maxReconnectAttempts) =>
            /\ delayLog = <<5000, 7500, 11250, 16875>>
            /\ Published(Ev("error", "failed"))
            /\ ~connected

Wit_C1 ==
    /\ FailureHandled
    /\ reconnectAttempts = maxReconnectAttempts
    /\ delayLog = <<5000, 7500, 11250, 16875>>
    /\ Published(Ev("error", "failed"))

\* C2: once the attempts are exhausted, a turn that is not a call of connect() or
\* disconnect() by the caller schedules no backoff timer and creates no transport handle.
Thm_C2 ==
    [][(reconnectAttempts >= maxReconnectAttempts /\ turn'.op \notin {"connect", "disconnect"}) =>
            /\ timers' <= timers
            /\ turn'.created = 0
            /\ \A h \in Handles : handles'[h].st = "connecting" => handles[h].st = "connecting"
      ]_vars

\* a failure signal and a backoff timer arrived after the exhaustion, and nothing was started
Wit_C2 ==
    \/ /\ reconnectAttempts = maxReconnectAttempts + 1
       /\ FailureHandled
       /\ Published(Ev("error", "failed"))
    \/ /\ reconnectAttempts >= maxReconnectAttempts
       /\ turn.op = "backoff"
       /\ turn.created = 0

\* C3: connect() called by the caller in the Failed state sets the attempt counter to 0
\* and starts a fresh attempt (a new handle, connecting).
Cex_C3 ==
    [][(turn'.op = "connect" /\ reconnectAttempts >= maxReconnectAttempts /\ ~connected) =>
            /\ reconnectAttempts' = 0
            /\ turn'.created # 0
            /\ socket' # 0 /\ handles'[socket'].st = "connecting"
      ]_vars

\* C4: after disconnect(), no turn creates a transport handle until the caller calls connect().
Cex_C4 ==
    [][(localDisconnect /\ turn'.op # "connect") =>
            /\ turn'.created = 0
            /\ \A h \in Handles : handles'[h].st = "connecting" => handles[h].st = "connecting"
      ]_vars

\* C5: at most one transport handle can deliver inbound events at any time.
Cex_C5 == Cardinality({h \in Handles : Open(h)}) <= 1

\* C6: no connect() call stays pending forever.  In every state a pending call still has
\* something that settles it: its watchdog is armed, or its handle can still deliver the
\* connect or connect_error event (the three places that call resolve).
Cex_C6 ==
    \A h \in Handles :
        handles[h].promise = "pending" => (connectionTimeout = h \/ Open(h))

\* C6, as a liveness property of FairSpec: every pending connect() call is eventually settled.
Live_C6 ==
    \A h \in Handles : (handles[h].promise = "pending") ~> (handles[h].promise # "pending")

\* C7: the turn of a 'connect' event resets the counter, sets the connected flag, emits
\* requestInitialData to the remote side, publishes connection{connected:true} and an
\* alert, and only then settles connect() with true.
Cex_C7 ==
    turn.op = "sock_connect" =>
        /\ connected
        /\ reconnectAttempts = 0
        /\ turn.published = <<Ev("connection", "true"), Ev("alert", "success")>>
        /\ \E i \in 1..Len(turn.emitted) : turn.emitted[i].ev = "requestInitialData"
        /\ turn.settled \in {"true", "none"}

\* C8: when a subscriber throws during publish, every subscriber registered after it for the
\* same event is still invoked, once, and no subscriber is invoked more often than registered.
Cex_C8 ==
    (turn.op = "emit" /\ turn.thrown) =>
        /\ Len(turn.invoked) <= Len(Subscribers(turn.arg))
        /\ \A i \in 1..Len(Subscribers(turn.arg)) :
              (\E j \in 1..(i - 1) : Subscribers(turn.arg)[j] \in ThrowingCallbacks) =>
                  /\ i <= Len(turn.invoked)
                  /\ turn.invoked[i] = Subscribers(turn.arg)[i]

\* C9: publish invokes exactly the registered handlers of the event, in registration order,
\* each as often as it is registered; subscribe appends; unsubscribe removes the first
\* matching entry only and keeps the others in order; other events' lists are untouched.
Cex_C9 ==
    [][LET e == turn'.arg
           cb == turn'.h
           old == Subscribers(e)
           new == IF e \in DOMAIN listeners' THEN listeners'[e] ELSE <<>>
       IN /\ turn'.op = "emit" => turn'.invoked = old /\ new = old
          /\ turn'.op = "on" => new = old \o <<cb>>
          /\ turn'.op = "off" =>
                IF \E i \in 1..Len(old) : old[i] = cb
                THEN \E i \in 1..Len(old) :
                        /\ old[i] = cb
                        /\ \A j \in 1..(i - 1) : old[j] # cb
                        /\ Len(new) = Len(old) - 1
                        /\ \A j \in 1..Len(new) : new[j] = IF j < i THEN old[j] ELSE old[j + 1]
                ELSE new = old
          /\ turn'.op \in {"emit", "on", "off"} =>
                \A x \in EventNames \ {e} :
                    (IF x \in DOMAIN listeners' THEN listeners'[x] ELSE <<>>) = Subscribers(x)
      ]_vars

\* C9, for the publishes in which no callback throws: what Cex_C9 states holds of them.
NoThrow_C9 ==
    [][turn'.op = "emit" /\ ~turn'.thrown => turn'.invoked = Subscribers(turn'.arg)]_vars

\* C10: sendCommand(action) called while not connected returns false, publishes exactly one
\* controlError for the action, issues no request and leaves the actuator flags unchanged.
Thm_C10 ==
    [][(turn'.op = "sendCommand" /\ (~connected \/ socket = 0)) =>
            /\ turn'.cmdRet = "false"
            /\ Len(turn'.published) = 1
            /\ turn'.published[1].ev = "controlError"
            /\ turn'.published[1].arg = turn'.arg
            /\ turn'.requests = <<>>
            /\ fetches' = fetches
            /\ wateringActive' = wateringActive
            /\ lightActive' = lightActive
      ]_vars

Wit_C10 ==
    /\ turn.op = "sendCommand"
    /\ ~connected
    /\ turn.cmdRet = "false"
    /\ Published(EvMsg("controlError", turn.arg, "notConnected"))
    /\ turn.requests = <<>>

\* C11: a non-success response or a transport failure makes sendCommand publish one
\* controlError for the action (the server's message when the body carries one, else a
\* generic one), return false, send no further request and leave the actuator flags alone.
Thm_C11 ==
    [][(turn'.op = "fetchResponse"
        /\ turn'.outcome \in {"rejected", "rejectedNoMsg", "rejectedBadJson", "networkError"}) =>
            /\ turn'.cmdRet = "false"
            /\ turn'.published =
                  <<EvMsg("controlError", turn'.arg,
                          IF turn'.outcome = "rejected" THEN "server" ELSE "generic")>>
            /\ turn'.requests = <<>>
            /\ Len(fetches') = Len(fetches) - 1
            /\ wateringActive' = wateringActive
            /\ lightActive' = lightActive
      ]_vars

Wit_C11 ==
    /\ turn.op = "fetchResponse"
    /\ turn.outcome = "rejected"
    /\ turn.cmdRet = "false"
    /\ Published(EvMsg("controlError", turn.arg, "server"))

\* C12: a transport-level success response (response.ok) makes sendCommand return true and
\* flip exactly the flag of the action: water negates wateringActive, light negates
\* lightActive, nutrients changes neither.
Cex_C12 ==
    [][(turn'.op = "fetchResponse" /\ turn'.outcome \in {"ok", "okBadJson"}) =>
            /\ turn'.cmdRet = "true"
            /\ wateringActive' = IF turn'.arg = "water" THEN ~wateringActive ELSE wateringActive
            /\ lightActive' = IF turn'.arg = "light" THEN ~lightActive ELSE lightActive
      ]_vars

\* C12, for the success responses whose body parses as JSON: what Cex_C12 states holds.
JsonOk_C12 ==
    [][(turn'.op = "fetchResponse" /\ turn'.outcome = "ok") =>
            /\ turn'.cmdRet = "true"
            /\ turn'.published = <<>>
            /\ wateringActive' = IF turn'.arg = "water" THEN ~wateringActive ELSE wateringActive
            /\ lightActive' = IF turn'.arg = "light" THEN ~lightActive ELSE lightActive
      ]_vars

\* the numeric fields of a reading
NumericFields ==
    {"temperature", "humidity", "moisture", "sunlight", "nitrogen", "phosphorus",
     "potassium", "waterLevel", "fertilizerLevel"}

\* `out` is the first alternative of `alts` that is there, for the payloads where each
\* earlier alternative is a missing key and the first one there is a finite number, and
\* is 0 when every alternative is a missing key
FirstGiven(alts, out) ==
    /\ \A i \in 1..Len(alts) :
          ((\A j \in 1..(i - 1) : alts[j] = JSUndefined) /\ IsFinite(alts[i])) => out = alts[i]
    /\ (\A j \in 1..Len(alts) : alts[j] = JSUndefined) => out = Num(0)

MoistureFirst ==
    FirstGiven(<<payload.moisture_percent, payload.soil_moisture_percent, payload.moisture>>,
               reading.moisture)
LightFirst == FirstGiven(<<payload.lux, payload.lightLevel, payload.ldr>>, reading.sunlight)
NpkFirst ==
    /\ (payload.npk.t = "object" /\ IsFinite(payload.npk.N)) => reading.nitrogen = payload.npk.N
    /\ (payload.npk.t = "object" /\ IsFinite(payload.npk.P)) => reading.phosphorus = payload.npk.P
    /\ (payload.npk.t = "object" /\ IsFinite(payload.npk.K)) => reading.potassium = payload.npk.K
    /\ payload.npk.t = "undefined" =>
          /\ FirstGiven(<<payload.nitrogen>>, reading.nitrogen)
          /\ FirstGiven(<<payload.phosphorus>>, reading.phosphorus)
          /\ FirstGiven(<<payload.potassium>>, reading.potassium)
LevelsFirst ==
    /\ FirstGiven(<<payload.waterLevelPercent, payload.waterLevel>>, reading.waterLevel)
    /\ FirstGiven(<<payload.fertilizer_level, payload.fertilizerLevel>>, reading.fertilizerLevel)

\* C18: in every family of keys the first alternative that is present gives the field, a
\* present 0 included, and a later alternative never replaces an earlier present one:
\* moisture_percent, soil_moisture_percent, moisture; lux, lightLevel, ldr; npk, then the
\* flat nutrient keys; waterLevelPercent, waterLevel; fertilizer_level, fertilizerLevel.
Cex_C18 ==
    turn.op = "normalize" => (MoistureFirst /\ LightFirst /\ NpkFirst /\ LevelsFirst)

\* C18, for the moisture, light and nutrient families: the first present alternative wins.
TestedFamilies_C18 ==
    turn.op = "normalize" => (MoistureFirst /\ LightFirst /\ NpkFirst)

\* the keys of the payload that one field of the reading is made from
Family(f) ==
    CASE f = "temperature" -> {"temperature"}
      [] f = "humidity" -> {"humidity"}
      [] f = "moisture" -> {"moisture_percent", "soil_moisture_percent", "moisture"}
      [] f = "sunlight" -> {"lux", "lightLevel", "ldr"}
      [] f = "nitrogen" -> {"npk", "nitrogen"}
      [] f = "phosphorus" -> {"npk", "phosphorus"}
      [] f = "potassium" -> {"npk", "potassium"}
      [] f = "waterLevel" -> {"waterLevelPercent", "waterLevel"}
      [] f = "fertilizerLevel" -> {"fertilizer_level", "fertilizerLevel"}

DocumentedDefault(f) ==
    CASE f = "temperature" -> Num(20)
      [] f = "humidity" -> Num(50)
      [] OTHER -> Num(0)

\* a value that is missing, empty or not parseable as a number
Unusable(v) == v \in {JSUndefined, JSNull, Str(""), Str("abc")}

\* the payload with every key outside `keys` removed
Only(d, keys) == [k \in DOMAIN d |-> IF k \in keys THEN d[k] ELSE EmptyPayload[k]]

\* every key a field is made from is missing, empty or not parseable
NoSource(f) ==
    /\ \A k \in Family(f) \ {"npk"} : Unusable(payload[k])
    /\ "npk" \in Family(f) => payload.npk.t # "object"

DefaultsAndIndependence ==
    \A f \in NumericFields :
        /\ reading[f].t = "number" /\ ~IsNaN(reading[f])
        /\ NoSource(f) => reading[f] = DocumentedDefault(f)
        /\ reading[f] = validateSensorData(Only(payload, Family(f)), deviceId)[f]

\* C19: validateSensorData returns, for every payload, a reading whose numeric fields are
\* all finite numbers; a field whose source is missing, empty or not parseable has its
\* default (temperature 20, humidity 50, others 0); and a field depends on its own keys
\* of the payload only.
Cex_C19 ==
    turn.op = "normalize" =>
        /\ \A f \in NumericFields : IsFinite(reading[f])
        /\ DefaultsAndIndependence

\* C19 without finiteness: no field is NaN or null, the defaults and the independence hold.
NoNaN_C19 == turn.op = "normalize" => DefaultsAndIndependence

\* the value the field f of a combined reading is to have when its source is the cached
\* reading of the device dev: the field of that reading, or the default without a reading
SourceValue(dev, f) ==
    IF dev \in DOMAIN currentSensorData THEN currentSensorData[dev][f]
    ELSE DocumentedDefault(f)

PlantDevice == IF plantType = "level1" THEN "esp32_1" ELSE "esp32_2"

\* the fields of the combined reading ce that are taken from the device of the active plant,
\* and the two reservoir levels
PlantFieldsFromSource(ce) ==
    /\ \A f \in {"moisture", "sunlight", "nitrogen", "phosphorus", "potassium"} :
          ce[f] = SourceValue(PlantDevice, f)
    /\ ce.waterLevel = SourceValue("esp32_1", "waterLevel")
    /\ ce.fertilizerLevel = SourceValue("esp32_2", "fertilizerLevel")

\* C13: every published combined reading has, in each field, the value of that field in its
\* source reading: temperature, humidity and waterLevel of esp32_1, fertilizerLevel of
\* esp32_2, the other fields of the device of the active plant; a field whose source reading
\* is absent has its default (temperature 20, humidity 50, others 0).
Cex_C13 ==
    \A i \in 1..Len(turn.dataEvents) :
        /\ turn.dataEvents[i].temperature = SourceValue("esp32_1", "temperature")
        /\ turn.dataEvents[i].humidity = SourceValue("esp32_1", "humidity")
        /\ PlantFieldsFromSource(turn.dataEvents[i])

\* C13, for the fields other than temperature and humidity: each has the value of its source.
OtherFields_C13 ==
    \A i \in 1..Len(turn.dataEvents) : PlantFieldsFromSource(turn.dataEvents[i])

\* C14: setActivePlant(type) sets the plant type and, in the same turn, publishes exactly one
\* data event made from the cached readings under the new plant type, connected or not;
\* with no cached reading of either device it publishes nothing.
Thm_C14 ==
    [][turn'.op = "setActivePlant" =>
            /\ plantType' = turn'.arg
            /\ currentSensorData' = currentSensorData
            /\ IF \E d \in DeviceIds : d \in DOMAIN currentSensorData
               THEN /\ turn'.published = <<Ev("data", turn'.arg)>>
                    /\ Len(turn'.dataEvents) = 1
                    /\ LET ce == turn'.dataEvents[1]
                           dev == IF turn'.arg = "level1" THEN "esp32_1" ELSE "esp32_2"
                       IN  /\ ce.deviceId = dev
                           /\ \A f \in {"moisture", "sunlight", "nitrogen"} :
                                 ce[f] = IF dev \in DOMAIN currentSensorData
                                         THEN currentSensorData[dev][f] ELSE Num(0)
               ELSE /\ turn'.published = <<>>
                    /\ turn'.dataEvents = <<>>
      ]_vars

\* the plant was switched to level2 while disconnected, and the cached reading of esp32_2
\* was published at once
Wit_C14 ==
    /\ turn.op = "setActivePlant"
    /\ turn.arg = "level2"
    /\ ~connected
    /\ DOMAIN currentSensorData = {"esp32_2"}
    /\ Len(turn.dataEvents) = 1
    /\ turn.dataEvents[1].moisture = currentSensorData["esp32_2"].moisture

\* the indices of the points of rawData whose timestamp parses
Parseable == {i \in 1..Len(rawData) : GetTime(rawData[i].timestamp) # JSNaN}

\* the start of the 5-minute bucket of the i-th point of rawData
BucketOf(i) == (GetTime(rawData[i].timestamp).n \div 300000) * 300000

\* the starts of the buckets that received a point
BucketStarts == {BucketOf(i) : i \in Parseable}

RECURSIVE SumOf(_)
SumOf(I) ==
    IF I = {} THEN Rat(0, 1)
    ELSE LET i == CHOOSE i \in I : TRUE
         IN  RatAdd(rawData[i].value, SumOf(I \ {i}))

\* C15: the output of averageDataPoints is strictly ascending by bucket timestamp, holds the
\* 60 most recent buckets that received a parseable point (all of them when they are at most
\* 60), and each output point has the bucket start floor(t/300000)*300000 as timestamp, the
\* number of input points of the bucket as count and their sum divided by count as value;
\* points whose timestamp does not parse are skipped, and an empty input gives an empty output.
Thm_C15 ==
    turn.op = "aggregate" =>
        LET n == Len(averaged)
            Start(i) == GetTime(averaged[i].timestamp).n
            In(i) == {j \in Parseable : BucketOf(j) = Start(i)}
        IN  /\ n <= 60
            /\ n = IF Cardinality(BucketStarts) <= 60 THEN Cardinality(BucketStarts) ELSE 60
            /\ \A i \in 1..n : averaged[i].timestamp = Iso(Start(i)) /\ Start(i) \in BucketStarts
            /\ \A i \in 1..(n - 1) : Start(i) < Start(i + 1)
            /\ \A i \in 1..n : \A b \in BucketStarts :
                  b > Start(i) => \E j \in (i + 1)..n : Start(j) = b
            /\ \A i \in 1..n :
                  /\ averaged[i].count = Cardinality(In(i))
                  /\ averaged[i].count > 0
                  /\ averaged[i].value = RatDiv(SumOf(In(i)), Cardinality(In(i)))
            /\ rawData = <<>> => averaged = <<>>

\* 61 buckets and more received points, one point had no date, the oldest buckets were
\* dropped and a bucket of two points was averaged
Wit_C15 ==
    /\ turn.op = "aggregate"
    /\ Cardinality(BucketStarts) > 60
    /\ Len(averaged) = 60
    /\ Parseable # 1..Len(rawData)
    /\ \E i \in 1..Len(averaged) : averaged[i].count = 2 /\ averaged[i].value = Rat(15, 1)

\* C16: after a live reading is applied, the displayed series is the aggregate of the raw
\* points that went into it followed by the new point: each bucket has the number of raw
\* readings that fell in it as count and their mean as value, as aggregating all of them
\* from scratch gives.
Cex_C16 == turn.op = "timeoutFire" => data = averageDataPoints(applied)

\* C16, for the timestamps: the displayed series has the buckets of the aggregate of the raw
\* points.
Buckets_C16 ==
    turn.op = "timeoutFire" =>
        [i \in 1..Len(data) |-> data[i].timestamp]
            = [i \in 1..Len(averageDataPoints(applied)) |->
                  averageDataPoints(applied)[i].timestamp]

\* C17: a data event cancels the pending recomputation and schedules one 30 s later, so at
\* most one is pending; a recomputation runs 30 s after the last data event and with the
\* reading of that event, and none runs before: a burst of events less than 30 s apart ends
\* in exactly one recomputation.
Thm_C17 ==
    [][/\ Cardinality(timeouts') <= 1
       /\ \A t \in timeouts' : t.due = lastEventAt' + 30000 /\ clock' <= t.due
       /\ turn'.op = "handleDataUpdate" =>
             \E t \in timeouts' : t.id = turn'.h /\ t.due = clock + 30000
                                  /\ t.newData.timestamp = Iso(clock)
       /\ turn'.op = "timeoutFire" =>
             /\ clock = lastEventAt + 30000
             /\ timeouts' = {}
             /\ Len(applied') = Len(applied) + 1
             /\ applied'[Len(applied')].timestamp = Iso(lastEventAt)
      ]_vars

\* three data events arrived less than 30 s apart and one recomputation ran, 30 s after the
\* third, with the reading of the third
Wit_C17 ==
    /\ turn.op = "timeoutFire"
    /\ turn.h = 3
    /\ Len(applied) = 1
    /\ clock = lastEventAt + 30000
    /\ applied[1].timestamp = Iso(lastEventAt)
    /\ lastEventAt > mountTime

\* a connect or connect_error signal of handle h arrives in the step
SignalOf(h) == turn'.op \in {"sock_connect", "sock_connect_error"} /\ turn'.h = h

\* the watchdog of an attempt is not pending after a signal of that attempt, and fires only
\* for an attempt that no signal has reached
CancelledBySignal ==
    /\ \A h \in Handles : SignalOf(h) => connectionTimeout' # h
    /\ turn'.op = "watchdog" =>
          handles[turn'.h] = [st |-> "connecting", promise |-> "pending"]

\* C20: the watchdog of a connection attempt is cancelled when connect or connect_error
\* arrives for that attempt and does not fire afterwards; the watchdog of an attempt that
\* neither signal has reached stays pending whatever signals arrive for other attempts or
\* handles.
Cex_C20 ==
    [][/\ CancelledBySignal
       /\ \A h \in Handles : \A g \in Handles \ {h} :
             (connectionTimeout = h /\ SignalOf(g)) => connectionTimeout' = h
      ]_vars

\* C20, first half: a signal of the attempt cancels its watchdog, which then never fires.
OwnSignal_C20 == [][CancelledBySignal]_vars


\* the turns of the handlers that write the shared stores; fetchResponse with the
\* outcome ok is the end of a successful sendCommand
StoreTurns ==
    {"initData", "dataUpdate", "reservoirUpdate", "controlResponse", "commandIssued",
     "fetchResponse"}
PublishedAny(t, names) == \E i \in 1..Len(t.published) : t.published[i].ev \in names

\* C21: a turn of initData, dataUpdate, reservoirUpdate, controlResponse, commandIssued
\* or a successful sendCommand that changes the reading cache publishes a data event,
\* one that changes the reservoir snapshot publishes a reservoir event, and one that
\* changes wateringActive or lightActive publishes controlSuccess or controlError.
Cex_C21 ==
    [][turn'.op \in StoreTurns =>
        /\ currentSensorData' # currentSensorData => PublishedAny(turn', {"data"})
        /\ currentReservoirLevels' # currentReservoirLevels =>
              PublishedAny(turn', {"reservoir"})
        /\ <<wateringActive, lightActive>>' # <<wateringActive, lightActive>> =>
              PublishedAny(turn', {"controlSuccess", "controlError"})]_vars

\* C22: a turn of dataUpdate or initData leaves, for each device it delivers a payload
\* for, the normalization of that payload in the reading cache, whatever timestamps the
\* payload and the entry it replaces carry, and leaves the entry of every other device
\* as it was.
Thm_C22 ==
    [][turn'.op \in {"dataUpdate", "initData"} =>
        /\ DOMAIN currentSensorData' = DOMAIN currentSensorData \cup DOMAIN turn'.delivered
        /\ \A d \in DOMAIN currentSensorData' :
              currentSensorData'[d] =
                  IF d \in DOMAIN turn'.delivered
                  THEN validateSensorData(turn'.delivered[d], d)
                  ELSE currentSensorData[d]]_vars

\* a payload stamped t1 was delivered for esp32_1 after one stamped t2, which is in the
\* history of level1, while esp32_2 has an entry
Wit_C22 ==
    /\ turn.op = "dataUpdate"
    /\ "esp32_1" \in DOMAIN turn.delivered
    /\ turn.delivered["esp32_1"].timestamp = Str("t1")
    /\ Len(historicalData["level1"]) = 1
    /\ historicalData["level1"][1].deviceId = "esp32_1"
    /\ historicalData["level1"][1].timestamp = Str("t2")
    /\ "esp32_2" \in DOMAIN currentSensorData
    /\ currentSensorData["esp32_1"].timestamp = Str("t1")

\* C23: no history list is ever longer than 100; a dataUpdate turn that carries data
\* appends the normalized reading to the list of the plant named by update.plantType,
\* else of level1 for esp32_1 and of level2 for any other device, dropping the oldest
\* reading when the list held 100 and keeping the others in order, and leaves the other
\* list alone; getHistoricalData returns the list of the active plant.
Thm_C23 ==
    [][/\ \A p \in PlantTypes : Len(historicalData'[p]) <= historyCap
       /\ turn'.op = "dataUpdate" /\ turn'.arg \in DOMAIN turn'.delivered =>
             LET dev == turn'.arg
                 pt == IF turn'.updPlant # "" THEN turn'.updPlant
                       ELSE IF dev = "esp32_1" THEN "level1" ELSE "level2"
                 was == historicalData[pt]
                 now == historicalData'[pt]
             IN  /\ Len(now) = Min(Len(was) + 1, historyCap)
                 /\ now[Len(now)] = validateSensorData(turn'.delivered[dev], dev)
                 /\ \A i \in 1..(Len(now) - 1) : now[i] = was[i + Len(was) + 1 - Len(now)]
                 /\ \A q \in PlantTypes \ {pt} : historicalData'[q] = historicalData[q]
       /\ turn'.op = "getHistoricalData" => turn'.returned = historicalData[plantType]
      ]_vars

\* a reading was pushed onto the full list of level1: the reading stamped t1 has moved
\* one place down from the end; level2 holds the reading of a third device
Wit_C23 ==
    /\ turn.op = "dataUpdate"
    /\ Len(historicalData["level1"]) = historyCap
    /\ historicalData["level1"][historyCap - 1].timestamp = Str("t1")
    /\ Len(historicalData["level2"]) = 1
    /\ historicalData["level2"][1].deviceId = "esp32_3"

\* getHistoricalData has returned the full list of level1 while level2 was not empty
WitGet_C23 ==
    /\ turn.op = "getHistoricalData"
    /\ Len(turn.returned) = historyCap
    /\ Len(historicalData["level2"]) = 1

\* C24: in every reachable state the attempt counter is at least 0 and at most
\* maxReconnectAttempts.
Cex_C24 == 0 <= reconnectAttempts /\ reconnectAttempts <= maxReconnectAttempts

\* the subscribers of 'data' other than handleDataUpdate of the e-th run, in order
Others(ls, e) ==
    SelectSeq(IF "data" \in DOMAIN ls THEN ls["data"] ELSE <<>>,
              LAMBDA cb : cb # HandlerOf(e))
InSeq(q, x) == \E i \in 1..Len(q) : q[i] = x

\* C25: the cleanup of a run of the effect leaves no timer of that run pending and its
\* handler out of the subscribers of 'data', with the other subscribers still there in
\* their order; and no step after it is a call of that handler, the callback of a timer
\* of that run or a setData of its fetch, whatever is published.
Thm_C25 ==
    [][/\ turn'.op = "cleanup" =>
             /\ ~InSeq(Subscribers("data")', HandlerOf(turn'.effect))
             /\ Others(listeners', turn'.effect) = Others(listeners, turn'.effect)
       /\ \A e \in 1..Len(effects') :
             ~effects'[e].isMounted =>
                 /\ \A t \in timeouts' : t.owner # e
                 /\ ~(turn'.op = "emit" /\ InSeq(turn'.invoked, HandlerOf(e)))
                 /\ ~(turn'.op = "timeoutFire" /\ turn'.effect = e)
                 /\ ~(turn'.op = "fetchHistoricalData" /\ turn'.effect = e
                        /\ turn'.outcome = "setData")
      ]_vars

\* the first run of the effect was cleaned up with its timer pending, another
\* subscriber was registered before it, and a data event published afterwards reached
\* that subscriber and the handler of the second run
Wit_C25 ==
    /\ turn.op = "emit"
    /\ Len(effects) = 2
    /\ ~effects[1].isMounted
    /\ effects[1].cancelled
    /\ Len(turn.invoked) >= 2
    /\ turn.invoked[1] \in Callbacks
    /\ InSeq(turn.invoked, HandlerOf(2))

====
